---- MODULE Spec2Model ----
(***************************************************************************)
(* A model of ifacegen (src/ifacegen.go): the generator pipeline           *)
(*   parseFlag -> newThisPackage -> parseMethods (importPackage,           *)
(*   parseTypeInfo, findInterface, parseMethod/parseTuple) -> genCode ->   *)
(*   writeCode                                                             *)
(* and the run-time behaviour of the mock struct that mockTpl generates.   *)
(*                                                                         *)
(* Go strings that the code inspects character by character (the -i flag,  *)
(* import paths, names, rendered types) are sequences of one-character     *)
(* strings.                                                                *)
(***************************************************************************)
EXTENDS Integers, Sequences, FiniteSets, TLC

VARIABLES
    pc,            \* position of main() in the pipeline
    flags,         \* the command line: [i, m, t, o] (-i, -m, -t, -o)
    srcPath,       \* parseFlag's srcPath result
    ifaceName,     \* parseFlag's ifaceName result
    env,           \* what the collaborators answer: go/build, loader, template, formatter, file system
    thisPkg,       \* destination package identity [path, name]
    vendorPrefix,  \* importPackage's loop variable
    attempts,      \* the build.Import calls made so far: <<[prefix, p]>>
    pkg,           \* the package importPackage returned
    iface,         \* the *types.Interface findInterface returned (its methods)
    decl,          \* the info.Defs entry whose type findInterface returned
    methods,       \* parseMethods' result so far
    code,          \* genCode's result
    written,       \* the writes made to the output destination: <<[dest, data]>>
    exitCode,      \* -1 while running, else the process exit status
    mockObj,       \* an instance of the generated mock: [iface, methods, fields, PanicIfNotMocked]
    callCounts,    \* the instance's callCounts array (zero-based)
    thr,           \* the goroutines using the instance
    hist           \* per method: calls made so far, calls the override function received

genVars  == <<pc, flags, srcPath, ifaceName, env, thisPkg, vendorPrefix, attempts,
              pkg, iface, decl, methods, code, written, exitCode>>
mockVars == <<mockObj, callCounts, thr, hist>>
vars     == <<genVars, mockVars>>

---------------------------------------------------------------------------
(* Bounds *)

MaxIdLen == 5
MaxDepth == 2
MaxSrcLen == 2
MaxTuple == 2
NumGoroutines == 2
MaxCalls == 2

---------------------------------------------------------------------------
(* Go string helpers over sequences of characters *)

Empty == <<>>

\* all sequences over S of length 0..n
StringsUpTo(S, n) == UNION {[1..k -> S] : k \in 0..n}

\* strings.LastIndex(s, c) for a one-character c: zero-based, -1 when absent
LastIndexFirst(s, c) ==
    IF \E k \in 1..Len(s) : s[k] = c
    THEN (CHOOSE k \in 1..Len(s) : s[k] = c /\ \A j \in 1..(k-1) : s[j] # c) - 1
    ELSE -1
LastIndex(s, c) ==
    IF \E k \in 1..Len(s) : s[k] = c
    THEN (CHOOSE k \in 1..Len(s) : s[k] = c /\ \A j \in (k+1)..Len(s) : s[j] # c) - 1
    ELSE -1

\* Go slicing s[lo:hi] with zero-based bounds
Slice(s, lo, hi) == SubSeq(s, lo + 1, hi)

---------------------------------------------------------------------------
(* What is left untouched while one component is examined on its own *)

NoPkg   == [path |-> Empty, name |-> Empty]
NoCwd   == [ok |-> FALSE, path |-> Empty, name |-> Empty]
NoDefs  == [ok |-> FALSE, entries |-> {}]
NoDecl  == [name |-> Empty, obj |-> "none", under |-> "none", methods |-> <<>>]
NoCode  == [ok |-> FALSE, tpl |-> "none", PkgName |-> Empty, Receiver |-> Empty,
            Struct |-> Empty, Methods |-> <<>>]
NoEnv   == [cwd |-> NoCwd, pkgs |-> {}, defs |-> NoDefs,
            tplOk |-> TRUE, fmtOk |-> TRUE, writeOk |-> TRUE]
NoFlags == [i |-> Empty, r |-> Empty, m |-> FALSE, t |-> FALSE, o |-> Empty]

NoMock  == [iface |-> <<>>, methods |-> <<>>, fields |-> {}, PanicIfNotMocked |-> FALSE,
            Receiver |-> Empty]

GenIdle ==
    /\ pc = "idle" /\ flags = NoFlags /\ srcPath = Empty /\ ifaceName = Empty
    /\ env = NoEnv /\ thisPkg = NoPkg /\ vendorPrefix = Empty /\ attempts = <<>>
    /\ pkg = Empty /\ iface = <<>> /\ decl = NoDecl /\ methods = <<>> /\ code = NoCode
    /\ written = <<>> /\ exitCode = -1

MockIdle ==
    /\ mockObj = NoMock /\ callCounts = <<>> /\ thr = <<>> /\ hist = <<>>

---------------------------------------------------------------------------
(* parseFlag, src/ifacegen.go:68-90 *)

OutFile == <<"o", ".", "g", "o">>
IdChars == {"a", ".", "/"}
ABC == <<"a", ".", "b", "/", "c">>
\* the identifiers given to -i
IdInputs == StringsUpTo(IdChars, MaxIdLen) \cup {ABC}

\* lines 75-89: "missing" (os.Exit(1)), "malformed" (log.Fatalf), or the split
parseFlagResult(id) ==
    IF id = Empty THEN [st |-> "missing", srcPath |-> Empty, ifaceName |-> id]
    ELSE LET i == LastIndex(id, ".") IN
         IF i >= 0
         THEN LET j == LastIndex(id, "/") IN
              IF j >= i
              THEN [st |-> "malformed", srcPath |-> Empty, ifaceName |-> id]
              ELSE [st |-> "ok", srcPath |-> Slice(id, 0, i),
                    ifaceName |-> Slice(id, i + 1, Len(id))]
         ELSE [st |-> "ok", srcPath |-> Empty, ifaceName |-> id]

ParseFlag ==
    /\ pc = "parseFlag"
    /\ LET r == parseFlagResult(flags.i) IN
       /\ srcPath' = r.srcPath
       /\ ifaceName' = r.ifaceName
       /\ IF r.st = "ok"
          THEN pc' = "newThisPackage" /\ exitCode' = exitCode
          ELSE pc' = "exit" /\ exitCode' = 1
    /\ UNCHANGED <<flags, env, thisPkg, vendorPrefix, attempts, pkg, iface, decl,
                   methods, code, written, mockVars>>

InitFlag ==
    /\ MockIdle
    /\ pc = "parseFlag"
    /\ flags \in [i : IdInputs, r : {Empty}, m : BOOLEAN, t : BOOLEAN, o : {Empty, OutFile}]
    /\ srcPath = Empty /\ ifaceName = Empty
    /\ env = NoEnv /\ thisPkg = NoPkg /\ vendorPrefix = Empty /\ attempts = <<>>
    /\ pkg = Empty /\ iface = <<>> /\ decl = NoDecl /\ methods = <<>> /\ code = NoCode
    /\ written = <<>> /\ exitCode = -1

SpecFlag == InitFlag /\ [][ParseFlag]_vars

Has(s, c) == \E k \in 1..Len(s) : s[k] = c
\* a '/' occurs somewhere after the last '.'
SlashAfterLastDot(s) ==
    \E k \in 1..Len(s) : s[k] = "/" /\ \A j \in k..Len(s) : s[j] # "."

\* C2: for every non-empty identifier, once parseFlag has run: without a '.'
\* the import path is empty and the identifier is the interface name; with a
\* '.' and a '/' after the last '.', the run has exited (status 1) before
\* anything else happened; otherwise import path and interface name are the
\* texts around the last '.'. In particular a.b/c is rejected.
C2_ParseFlag ==
    (pc # "parseFlag" /\ flags.i # Empty) =>
        LET id == flags.i IN
        /\ ~Has(id, ".") =>
              pc = "newThisPackage" /\ srcPath = Empty /\ ifaceName = id
        /\ (Has(id, ".") /\ SlashAfterLastDot(id)) =>
              pc = "exit" /\ exitCode = 1 /\ written = <<>> /\ code = NoCode
        /\ (Has(id, ".") /\ ~SlashAfterLastDot(id)) =>
              /\ pc = "newThisPackage"
              /\ srcPath \o <<".">> \o ifaceName = id
              /\ ~Has(ifaceName, ".")
        /\ id = ABC => pc = "exit"

C2_Witness ==
    /\ flags.i = ABC /\ pc = "exit" /\ exitCode = 1

---------------------------------------------------------------------------
(* path/filepath (Unix) as importPackage uses it, src/ifacegen.go:163,172 *)

Slash  == "/"
Dot    == <<".">>
DotDot == <<".", ".">>
Vendor == <<"v", "e", "n", "d", "o", "r">>

\* the elements of s between its '/' characters
RECURSIVE SplitSlash(_)
SplitSlash(s) ==
    LET k == LastIndex(s, Slash) IN
    IF k < 0 THEN <<s>>
    ELSE Append(SplitSlash(Slice(s, 0, k)), Slice(s, k + 1, Len(s)))

\* strings.Join(elems, "/")
RECURSIVE JoinSlash(_)
JoinSlash(elems) ==
    IF elems = <<>> THEN Empty
    ELSE IF Len(elems) = 1 THEN elems[1]
    ELSE JoinSlash(SubSeq(elems, 1, Len(elems) - 1)) \o <<Slash>> \o elems[Len(elems)]

\* filepath.Clean's scan: drop empty and "." elements, let ".." remove the
\* element before it (or keep it at the front of a relative path)
RECURSIVE CleanElems(_, _, _)
CleanElems(elems, rooted, out) ==
    IF elems = <<>> THEN out
    ELSE LET e == Head(elems)
             rest == Tail(elems) IN
         IF e = Empty \/ e = Dot THEN CleanElems(rest, rooted, out)
         ELSE IF e = DotDot
              THEN IF out # <<>> /\ out[Len(out)] # DotDot
                   THEN CleanElems(rest, rooted, SubSeq(out, 1, Len(out) - 1))
                   ELSE IF ~rooted THEN CleanElems(rest, rooted, Append(out, e))
                   ELSE CleanElems(rest, rooted, out)
              ELSE CleanElems(rest, rooted, Append(out, e))

Clean(path) ==
    IF path = Empty THEN Dot
    ELSE LET rooted == path[1] = Slash
             body == JoinSlash(CleanElems(SplitSlash(path), rooted, <<>>))
             res == IF rooted THEN <<Slash>> \o body ELSE body IN
         IF res = Empty THEN Dot ELSE res

\* filepath.Join(a, b, c): empty elements are ignored, the result is cleaned
Join3(a, b, c) ==
    LET ne == SelectSeq(<<a, b, c>>, LAMBDA e : e # Empty) IN
    IF ne = <<>> THEN Empty ELSE Clean(JoinSlash(ne))

\* a "parent" that never gets shorter, as for a rooted path
DirStuck(path) == path
\* filepath.Dir(path)
Dir(path) == Clean(Slice(path, 0, LastIndex(path, Slash) + 1))

---------------------------------------------------------------------------
(* importPackage, src/ifacegen.go:149-174 *)

\* vendorPrefix == "" || vendorPrefix == "."
NoPrefix(vp) == vp = Empty \/ vp = Dot

\* lines 161-164: the path given to build.Import in one iteration
importCandidate(vp, sp) ==
    IF ~NoPrefix(vp) THEN Join3(vp, Vendor, sp) ELSE sp

\* lines 152-158: the current directory as a package
ImportPackageCwd ==
    /\ pc = "importPackage"
    /\ srcPath = Empty
    /\ IF ~env.cwd.ok
       THEN pc' = "exit" /\ exitCode' = 1 /\ pkg' = pkg
       ELSE pc' = "parseTypeInfo" /\ exitCode' = exitCode /\ pkg' = env.cwd.path
    /\ UNCHANGED <<flags, srcPath, ifaceName, env, thisPkg, vendorPrefix, attempts,
                   iface, decl, methods, code, written, mockVars>>

\* lines 160-173: one iteration of the loop
ImportPackageTry ==
    /\ pc = "importPackage"
    /\ srcPath # Empty
    /\ LET p == importCandidate(vendorPrefix, srcPath) IN
       /\ attempts' = Append(attempts, [prefix |-> vendorPrefix, p |-> p])
       /\ IF p \in env.pkgs
          THEN /\ pkg' = p /\ pc' = "parseTypeInfo"
               /\ UNCHANGED <<vendorPrefix, exitCode>>
          ELSE IF NoPrefix(vendorPrefix)
               THEN /\ pc' = "exit" /\ exitCode' = 1
                    /\ UNCHANGED <<vendorPrefix, pkg>>
               ELSE /\ vendorPrefix' = Dir(vendorPrefix)
                    /\ UNCHANGED <<pc, pkg, exitCode>>
    /\ UNCHANGED <<flags, srcPath, ifaceName, env, thisPkg, iface, decl, methods, code,
                   written, mockVars>>

PathSegs == {<<"x">>, <<"y">>}
\* the import paths go/build reports for a directory: "." or a relative path
ImportPaths == {Dot} \cup {JoinSlash(e) : e \in StringsUpTo(PathSegs, MaxDepth) \ {<<>>}}
SrcInputs == StringsUpTo(IdChars, MaxSrcLen)

\* the destination's location and its ancestors, deepest first, down to "."
AncestorsOf(path) ==
    IF NoPrefix(path) THEN <<path>>
    ELSE LET el == SplitSlash(path) IN
         [k \in 1..(Len(el) + 1) |->
             IF k <= Len(el) THEN JoinSlash(SubSeq(el, 1, Len(el) + 1 - k)) ELSE Dot]
\* what build.Import may be asked for, for this destination and import path
CandidatesOf(path, sp) ==
    {sp} \cup {Join3(AncestorsOf(path)[k], Vendor, sp) : k \in 1..Len(AncestorsOf(path))}

InitLocator ==
    /\ MockIdle
    /\ pc = "importPackage"
    /\ flags = NoFlags /\ ifaceName = <<"a">>
    /\ srcPath \in SrcInputs
    /\ thisPkg \in [path : ImportPaths, name : {<<"p">>}]
    /\ vendorPrefix = thisPkg.path
    /\ \E found \in SUBSET CandidatesOf(thisPkg.path, srcPath),
          cwd \in {NoCwd, [ok |-> TRUE, path |-> thisPkg.path, name |-> <<"p">>]} :
          env = [NoEnv EXCEPT !.pkgs = found, !.cwd = cwd]
    /\ attempts = <<>> /\ pkg = Empty /\ iface = <<>> /\ decl = NoDecl /\ methods = <<>>
    /\ code = NoCode /\ written = <<>> /\ exitCode = -1

NextLocator == ImportPackageCwd \/ ImportPackageTry
SpecLocator == InitLocator /\ [][NextLocator]_vars

\* the k-th ancestor of the destination and the candidate tried there
AncestorAt(k) == AncestorsOf(thisPkg.path)[k]
Depth == Len(AncestorsOf(thisPkg.path))

\* C5: for a non-empty import path the direct resolution of the import path
\* is the first attempt importPackage makes, the vendor candidates coming
\* only after it has failed.
C5_DirectFirst ==
    (srcPath # Empty /\ Len(attempts) >= 1) => attempts[1].p = srcPath

\* C6: for every destination location and every non-empty import path,
\* importPackage tries no ancestor twice, makes at most one attempt per
\* ancestor (every iteration makes one, so the loop stops while an ancestor
\* is still untried at the latest), and when no candidate resolves it ends
\* with the fatal package-not-found exit.
C6_Terminates ==
    srcPath # Empty =>
        /\ \A j, k \in 1..Len(attempts) :
              j # k => attempts[j].prefix # attempts[k].prefix
        /\ Len(attempts) <= Depth
        /\ pc = "importPackage" => Len(attempts) < Depth
        /\ (env.pkgs = {} /\ pc # "importPackage") =>
              (pc = "exit" /\ exitCode = 1 /\ Len(attempts) = Depth)

C6_Witness ==
    /\ srcPath # Empty /\ env.pkgs = {} /\ pc = "exit" /\ Len(attempts) = 3

---------------------------------------------------------------------------
(* newThisPackage and newPackageQualifier, src/ifacegen.go:51-66 *)

TestSuffix == <<"_", "t", "e", "s", "t">>

\* lines 52-56, given the package go/build found in the working directory
newThisPackage(cwd, mockInTest) ==
    [path |-> cwd.path,
     name |-> IF mockInTest THEN cwd.name \o TestSuffix ELSE cwd.name]

\* a qualifier that only looks at the import path
newPackageQualifierPathOnly(this, p) ==
    IF p.path = this.path THEN Empty ELSE p.name
\* lines 60-65: the prefix for package p in the destination package this
newPackageQualifier(this, p) ==
    IF p.path = this.path \/ p.name = this.name THEN Empty ELSE p.name

\* types.TypeString(ty, pkgQual) for a named or predeclared type: a type of
\* the universe has no package; any other is written <prefix>.<name> unless
\* the qualifier returns ""
TypeString(this, ty) ==
    IF ty.pkg = NoPkg THEN ty.name
    ELSE LET q == newPackageQualifier(this, ty.pkg) IN
         IF q # Empty THEN q \o <<".">> \o ty.name ELSE ty.name

---------------------------------------------------------------------------
(* parseTuple and parseMethod, src/ifacegen.go:219-260 *)

Digits == <<"0", "1", "2", "3", "4", "5", "6", "7", "8", "9">>
\* strconv.Itoa for i >= 0
RECURSIVE Itoa(_)
Itoa(i) == IF i < 10 THEN <<Digits[i + 1]>>
           ELSE Itoa(i \div 10) \o <<Digits[(i % 10) + 1]>>

ErrName   == <<"e", "r", "r">>
ErrorText == <<"e", "r", "r", "o", "r">>
CommaSp   == <<",", " ">>

\* lines 228-233 with the generic name counted among the anonymous entries
\* instead of taken from the position
synthNameRenumbered(ty, errNameUsed, namePrefix, i) ==
    IF ty = ErrorText /\ ~errNameUsed THEN ErrName
    ELSE namePrefix \o Itoa(IF errNameUsed /\ i > 0 THEN i - 1 ELSE i)
\* lines 228-233: the name of an anonymous entry at position i
synthName(ty, errNameUsed, namePrefix, i) ==
    IF ty = ErrorText /\ ~errNameUsed THEN ErrName
    ELSE namePrefix \o Itoa(i)

\* lines 222-241: the loop from position i on; acc = [errNameUsed, params, args]
RECURSIVE parseTupleFrom(_, _, _, _, _)
parseTupleFrom(this, tuple, namePrefix, i, acc) ==
    IF i >= Len(tuple) THEN acc
    ELSE LET v == tuple[i + 1]
             ty == TypeString(this, v.type)
             anon == v.name = Empty /\ namePrefix # Empty
             name == IF anon THEN synthName(ty, acc.errNameUsed, namePrefix, i)
                     ELSE v.name
             sep == IF i # 0 THEN CommaSp ELSE Empty IN
         parseTupleFrom(this, tuple, namePrefix, i + 1,
             [errNameUsed |-> acc.errNameUsed \/ (anon /\ ty = ErrorText),
              params |-> acc.params \o sep \o name \o <<" ">> \o ty,
              args |-> acc.args \o sep \o name])

\* lines 219-243
parseTuple(this, tuple, namePrefix) ==
    parseTupleFrom(this, tuple, namePrefix, 0,
                   [errNameUsed |-> FALSE, params |-> Empty, args |-> Empty])

\* types.TypeString of a tuple inside a signature: "name type" or "type"
RECURSIVE tupleString(_, _, _)
tupleString(this, tuple, i) ==
    IF i >= Len(tuple) THEN Empty
    ELSE LET v == tuple[i + 1] IN
         (IF i # 0 THEN CommaSp ELSE Empty)
         \o (IF v.name # Empty THEN v.name \o <<" ">> ELSE Empty)
         \o TypeString(this, v.type)
         \o tupleString(this, tuple, i + 1)

\* line 254: types.TypeString(sig, pkgQual)
sigString(this, fn) ==
    <<"f", "u", "n", "c", "(">> \o tupleString(this, fn.params, 0) \o <<")">>
    \o (IF fn.results = <<>> THEN Empty
        ELSE IF Len(fn.results) = 1 /\ fn.results[1].name = Empty
             THEN <<" ">> \o TypeString(this, fn.results[1].type)
             ELSE <<" ", "(">> \o tupleString(this, fn.results, 0) \o <<")">>)

\* lines 245-260
parseMethod(this, fn) ==
    LET ps == parseTuple(this, fn.params, <<"a">>)
        rs == parseTuple(this, fn.results, <<"r">>) IN
    [Method |-> fn.name, Sig |-> sigString(this, fn),
     Params |-> ps.params, Args |-> ps.args,
     Results |-> rs.params, ResultVars |-> rs.args]

\* lines 186-190: one iteration of parseMethods' loop
ParseMethod ==
    /\ pc = "parseMethod"
    /\ Len(methods) < Len(iface)
    /\ methods' = Append(methods, parseMethod(thisPkg, iface[Len(methods) + 1]))
    /\ pc' = IF Len(methods') < Len(iface) THEN pc ELSE "genCode"
    /\ UNCHANGED <<flags, srcPath, ifaceName, env, thisPkg, vendorPrefix,
                   attempts, pkg, iface, decl, code, written, exitCode, mockVars>>

\* Packages and types the interface's signatures mention
PkgXP  == [path |-> <<"x">>, name |-> <<"p">>]
PkgYP  == [path |-> <<"y">>, name |-> <<"p">>]
PkgYPT == [path |-> <<"y">>, name |-> <<"p">> \o TestSuffix]
TError == [pkg |-> NoPkg, name |-> ErrorText]
TInt   == [pkg |-> NoPkg, name |-> <<"i", "n", "t">>]
Types  == {TError, TInt,
           [pkg |-> PkgXP, name |-> <<"T">>], [pkg |-> PkgYP, name |-> <<"T">>],
           [pkg |-> PkgYPT, name |-> <<"T">>], [pkg |-> PkgYP, name |-> ErrorText]}

AnonTuples(n) == UNION {[1..k -> [name : {Empty}, type : Types]] : k \in 0..n}
NamedTuples ==
    {<<[name |-> nm, type |-> ty]>> : nm \in {<<"v">>, ErrName, <<"_">>},
                                      ty \in {TError, [pkg |-> PkgYP, name |-> <<"T">>]}}
    \cup {<<[name |-> <<"n">>, type |-> TInt], [name |-> ErrName, type |-> TError]>>,
          <<[name |-> <<"a", "1">>, type |-> TError], [name |-> <<"a", "0">>, type |-> TInt]>>}
Tuples == AnonTuples(MaxTuple) \cup NamedTuples
Funcs == [name : {<<"F">>}, params : Tuples, results : Tuples]

InitSig ==
    /\ MockIdle
    /\ pc = "parseMethod"
    /\ \E t \in BOOLEAN :
          /\ flags = [NoFlags EXCEPT !.t = t]
          /\ env = [NoEnv EXCEPT !.cwd = [ok |-> TRUE, path |-> <<"x">>, name |-> <<"p">>]]
          /\ thisPkg = newThisPackage(env.cwd, t)
    /\ srcPath = Empty /\ ifaceName = <<"I">>
    /\ vendorPrefix = thisPkg.path /\ attempts = <<>> /\ pkg = thisPkg.path
    /\ \E fn \in Funcs : iface = <<fn>>
    /\ decl = [name |-> ifaceName, obj |-> "TypeName", under |-> "Interface", methods |-> iface]
    /\ methods = <<>> /\ code = NoCode /\ written = <<>> /\ exitCode = -1

SpecSig == InitSig /\ [][ParseMethod]_vars

(* Reading the generated texts back, as the Go parser reads them *)

\* zero-based index of the first occurrence of sep in s, -1 when absent
IndexOf(s, sep) ==
    LET hits == {k \in 1..(Len(s) - Len(sep) + 1) : SubSeq(s, k, k + Len(sep) - 1) = sep} IN
    IF hits = {} THEN -1
    ELSE (CHOOSE k \in hits : \A h \in hits : k <= h) - 1

RECURSIVE SplitOn(_, _)
SplitOn(s, sep) ==
    LET k == IndexOf(s, sep) IN
    IF k < 0 THEN <<s>>
    ELSE <<Slice(s, 0, k)>> \o SplitOn(Slice(s, k + Len(sep), Len(s)), sep)

\* the entries of a comma-separated list
ListOf(s) == IF s = Empty THEN <<>> ELSE SplitOn(s, CommaSp)
\* the name and the type of a "name type" declaration
DeclName(d) == Slice(d, 0, IndexOf(d, <<" ">>))
DeclType(d) == Slice(d, IndexOf(d, <<" ">>) + 1, Len(d))

AllAnonymous(tuple) == \A k \in 1..Len(tuple) : tuple[k].name = Empty

\* the names a tuple's entries must get according to C1, given the declaration
\* list and the names list parseTuple produced for it
NamesAsSpecified(tuple, prefix, decls, names) ==
    /\ Len(decls) = Len(tuple) /\ Len(names) = Len(tuple)
    /\ \A k \in 1..Len(tuple) :
          LET anonError(j) == tuple[j].name = Empty /\ DeclType(decls[j]) = ErrorText IN
          /\ DeclName(decls[k]) = names[k]
          /\ tuple[k].name # Empty => names[k] = tuple[k].name
          /\ (anonError(k) /\ \A j \in 1..(k - 1) : ~anonError(j)) => names[k] = ErrName
          /\ (tuple[k].name = Empty /\ ~(anonError(k) /\ \A j \in 1..(k - 1) : ~anonError(j)))
                => names[k] = prefix \o Itoa(k - 1)
    /\ Cardinality({k \in 1..Len(tuple) : tuple[k].name = Empty /\ names[k] = ErrName}) <= 1

\* C1: in every parsed method, for the parameter tuple (prefix a) and the
\* result tuple (prefix r): an explicit name is kept verbatim, the first
\* anonymous entry rendered "error" is named err, at most once per tuple, and
\* every other anonymous entry at position i is named <prefix><i>.
C1_NameSynthesis ==
    \A k \in 1..Len(methods) :
        /\ NamesAsSpecified(iface[k].params, <<"a">>,
                            ListOf(methods[k].Params), ListOf(methods[k].Args))
        /\ NamesAsSpecified(iface[k].results, <<"r">>,
                            ListOf(methods[k].Results), ListOf(methods[k].ResultVars))

C1_Witness ==
    /\ Len(methods) = 1
    /\ iface[1].results = <<[name |-> Empty, type |-> TError], [name |-> Empty, type |-> TError]>>
    /\ methods[1].ResultVars = ErrName \o CommaSp \o <<"r", "1">>
    /\ iface[1].params = <<[name |-> Empty, type |-> TError], [name |-> Empty, type |-> TInt]>>
    /\ methods[1].Args = ErrName \o CommaSp \o <<"a", "1">>

\* the text C8 asks for a type of package p in the destination package
QualifiedAsSpecified(ty, text) ==
    ty.pkg # NoPkg =>
        /\ (ty.pkg.path = thisPkg.path \/ ty.pkg.name = thisPkg.name) => text = ty.name
        /\ ~(ty.pkg.path = thisPkg.path \/ ty.pkg.name = thisPkg.name)
              => text = ty.pkg.name \o <<".">> \o ty.name
        /\ ty.pkg = thisPkg => text = ty.name

\* C8: the destination's display name carries the test suffix exactly when
\* mockInTest is set, and every type of a foreign package is rendered without
\* prefix exactly when that package has the destination's import path or its
\* display name, and with the package's own display name otherwise; a type of
\* the destination package itself is rendered unqualified.
C8_Qualifier ==
    /\ thisPkg.path = env.cwd.path
    /\ thisPkg.name = (IF flags.t THEN env.cwd.name \o TestSuffix ELSE env.cwd.name)
    /\ \A k \in 1..Len(methods) :
          /\ \A e \in 1..Len(iface[k].params) :
                QualifiedAsSpecified(iface[k].params[e].type,
                                     DeclType(ListOf(methods[k].Params)[e]))
          /\ \A e \in 1..Len(iface[k].results) :
                QualifiedAsSpecified(iface[k].results[e].type,
                                     DeclType(ListOf(methods[k].Results)[e]))

C8_Witness ==
    /\ Len(methods) = 1 /\ flags.t
    /\ iface[1].params = <<[name |-> Empty, type |-> [pkg |-> PkgYPT, name |-> <<"T">>]],
                           [name |-> Empty, type |-> [pkg |-> PkgYP, name |-> <<"T">>]]>>
    /\ methods[1].Params = <<"a", "0", " ", "T", ",", " ", "a", "1", " ", "p", ".", "T">>

\* C10 as stated: the names given to the entries of an all-anonymous method
\* are pairwise distinct within and across the parameter and result lists
C10_DistinctNames ==
    \A k \in 1..Len(methods) :
        (AllAnonymous(iface[k].params) /\ AllAnonymous(iface[k].results)) =>
            LET names == ListOf(methods[k].Args) \o ListOf(methods[k].ResultVars) IN
            \A i, j \in 1..Len(names) : i # j => names[i] # names[j]

---------------------------------------------------------------------------
(* main's first steps, src/ifacegen.go:32-45 and 51-57 *)

\* line 40, with importPackage("", "") (lines 152-158) inside, and the call
\* of parseMethods at line 45 binding importPackage's vendorPrefix (line 177)
NewThisPackage ==
    /\ pc = "newThisPackage"
    /\ IF ~env.cwd.ok
       THEN pc' = "exit" /\ exitCode' = 1 /\ UNCHANGED <<thisPkg, vendorPrefix>>
       ELSE /\ thisPkg' = newThisPackage(env.cwd, flags.t)
            /\ vendorPrefix' = thisPkg'.path
            /\ pc' = "importPackage" /\ exitCode' = exitCode
    /\ UNCHANGED <<flags, srcPath, ifaceName, env, attempts, pkg, iface, decl,
                   methods, code, written, mockVars>>

---------------------------------------------------------------------------
(* parseTypeInfo and findInterface, src/ifacegen.go:193-217 *)

\* lines 193-204: conf.Load() fails or yields the symbol table
ParseTypeInfo ==
    /\ pc = "parseTypeInfo"
    /\ IF env.defs.ok
       THEN pc' = "findInterface" /\ exitCode' = exitCode
       ELSE pc' = "exit" /\ exitCode' = 1
    /\ UNCHANGED <<flags, srcPath, ifaceName, env, thisPkg, vendorPrefix, attempts,
                   pkg, iface, decl, methods, code, written, mockVars>>

\* line 209: o.Type().Underlying().(*types.Interface) succeeds
IsInterface(e) == e.obj # "nil" /\ e.under = "Interface"

\* lines 207-214: the entries at which the range over info.Defs can stop.
\* The map is visited in an unspecified order, so any of them can come first:
\* an entry of that name whose object is nil (a package clause) panics at
\* o.Type(), one whose type has an interface underneath is returned.
StopsAt(entries, name) ==
    {e \in entries : e.name = name /\ (e.obj = "nil" \/ IsInterface(e))}

\* lines 206-217
FindInterface ==
    /\ pc = "findInterface"
    /\ LET stops == StopsAt(env.defs.entries, ifaceName) IN
       IF stops = {}
       THEN pc' = "exit" /\ exitCode' = 1 /\ UNCHANGED <<iface, decl>>
       ELSE \E e \in stops :
               IF e.obj = "nil"
               THEN pc' = "exit" /\ exitCode' = 2 /\ UNCHANGED <<iface, decl>>
               ELSE /\ iface' = e.methods /\ decl' = e
                    /\ pc' = IF e.methods = <<>> THEN "genCode" ELSE "parseMethod"
                    /\ exitCode' = exitCode
    /\ UNCHANGED <<flags, srcPath, ifaceName, env, thisPkg, vendorPrefix, attempts,
                   pkg, methods, code, written, mockVars>>

\* Sample signatures and the entries a symbol table can hold
FnF == [name |-> <<"F">>, params |-> <<[name |-> Empty, type |-> TInt]>>,
        results |-> <<[name |-> Empty, type |-> TInt], [name |-> Empty, type |-> TError]>>]
FnG == [name |-> <<"G">>, params |-> <<>>, results |-> <<>>]
NameI == <<"I">>
DefEntries ==
    {[name |-> NameI, obj |-> "TypeName", under |-> "Interface", methods |-> <<FnF, FnG>>],
     [name |-> NameI, obj |-> "TypeName", under |-> "Struct", methods |-> <<>>],
     [name |-> NameI, obj |-> "Var", under |-> "Interface", methods |-> <<FnG>>],
     [name |-> NameI, obj |-> "Func", under |-> "Signature", methods |-> <<>>],
     [name |-> NameI, obj |-> "nil", under |-> "none", methods |-> <<>>],
     [name |-> <<"J">>, obj |-> "TypeName", under |-> "Interface", methods |-> <<FnF>>],
     [name |-> <<"J">>, obj |-> "Var", under |-> "Interface", methods |-> <<>>],
     [name |-> <<"I", "I">>, obj |-> "TypeName", under |-> "Interface", methods |-> <<>>]}

InitResolver ==
    /\ MockIdle
    /\ pc = "findInterface"
    /\ flags = [NoFlags EXCEPT !.i = NameI] /\ srcPath = Empty /\ ifaceName = NameI
    /\ \E es \in SUBSET DefEntries :
          env = [NoEnv EXCEPT !.cwd = [ok |-> TRUE, path |-> <<"x">>, name |-> <<"p">>],
                              !.defs = [ok |-> TRUE, entries |-> es]]
    /\ thisPkg = newThisPackage(env.cwd, FALSE)
    /\ vendorPrefix = thisPkg.path /\ attempts = <<>> /\ pkg = thisPkg.path
    /\ iface = <<>> /\ decl = NoDecl /\ methods = <<>>
    /\ code = NoCode /\ written = <<>> /\ exitCode = -1

SpecResolver == InitResolver /\ [][FindInterface]_vars

\* C9 as stated: what findInterface returns is the shape of a top-level type
\* declaration of exactly the requested name with an interface underneath,
\* and without such a declaration the look-up ends in a fatal exit, returning
\* nothing.
C9_FindInterface ==
    pc # "findInterface" =>
        LET wanted == {e \in env.defs.entries :
                          e.name = ifaceName /\ e.obj = "TypeName" /\ e.under = "Interface"} IN
        /\ pc # "exit" => decl \in wanted /\ iface = decl.methods
        /\ wanted = {} => pc = "exit" /\ exitCode # 0 /\ decl = NoDecl /\ iface = <<>>

---------------------------------------------------------------------------
(* genCode and writeCode, src/ifacegen.go:92-130 *)

Star == <<"*">>
\* strings.TrimPrefix(s, "*")
TrimStar(s) == IF Len(s) >= 1 /\ s[1] = "*" THEN Slice(s, 1, Len(s)) ELSE s

\* lines 35-43 and 93-106: the data handed to the template
templateData ==
    LET pkgName == IF flags.m THEN thisPkg.name ELSE Empty
        sfx == IF pkgName # Empty THEN <<"M", "o", "c", "k">> ELSE <<"G", "e", "n">>
        receiver == IF flags.r = Empty THEN Star \o ifaceName \o sfx ELSE flags.r IN
    [ok |-> TRUE, tpl |-> IF pkgName # Empty THEN "mock" ELSE "gen",
     PkgName |-> pkgName, Receiver |-> receiver, Struct |-> TrimStar(receiver),
     Methods |-> methods]

\* genCode going on to the write although formatting failed
GenCodeUnchecked ==
    /\ pc = "genCode"
    /\ IF ~env.tplOk
       THEN pc' = "exit" /\ exitCode' = 1 /\ code' = code
       ELSE pc' = "writeCode" /\ exitCode' = exitCode /\ code' = templateData
    /\ UNCHANGED <<flags, srcPath, ifaceName, env, thisPkg, vendorPrefix, attempts,
                   pkg, iface, decl, methods, written, mockVars>>
\* lines 92-120: tpl.Execute, then format.Source or imports.Process
GenCode ==
    /\ pc = "genCode"
    /\ IF ~env.tplOk \/ ~env.fmtOk
       THEN pc' = "exit" /\ exitCode' = 1 /\ code' = code
       ELSE pc' = "writeCode" /\ exitCode' = exitCode /\ code' = templateData
    /\ UNCHANGED <<flags, srcPath, ifaceName, env, thisPkg, vendorPrefix, attempts,
                   pkg, iface, decl, methods, written, mockVars>>

\* lines 122-130, and main's return
WriteCode ==
    /\ pc = "writeCode"
    /\ written' = Append(written,
                         [dest |-> IF flags.o # Empty THEN flags.o ELSE <<"stdout">>,
                          data |-> code])
    /\ IF env.writeOk
       THEN pc' = "done" /\ exitCode' = 0
       ELSE pc' = "exit" /\ exitCode' = 1
    /\ UNCHANGED <<flags, srcPath, ifaceName, env, thisPkg, vendorPrefix, attempts,
                   pkg, iface, decl, methods, code, mockVars>>

---------------------------------------------------------------------------
(* One run of the generator *)

MainIds == {Empty, NameI, <<"J">>, <<"a", ".", "I">>, ABC}
MainCwds == {NoCwd, [ok |-> TRUE, path |-> Dot, name |-> <<"p">>],
             [ok |-> TRUE, path |-> <<"x">>, name |-> <<"p">>]}
MainDefs ==
    {NoDefs,
     [ok |-> TRUE, entries |-> {e \in DefEntries : e.obj = "TypeName"}],
     [ok |-> TRUE, entries |-> {e \in DefEntries : e.name = NameI /\ e.obj # "TypeName"}],
     [ok |-> TRUE, entries |-> {e \in DefEntries : e.under = "Struct"}]}

Init ==
    /\ MockIdle
    /\ pc = "parseFlag"
    /\ flags \in [i : MainIds, r : {Empty, <<"*", "T">>, <<"T">>}, m : BOOLEAN, t : BOOLEAN,
                  o : {Empty, OutFile}]
    /\ env \in [cwd : MainCwds,
                pkgs : SUBSET {<<"a">>, <<"x", "/", "v", "e", "n", "d", "o", "r", "/", "a">>},
                defs : MainDefs, tplOk : BOOLEAN, fmtOk : BOOLEAN, writeOk : BOOLEAN]
    /\ srcPath = Empty /\ ifaceName = Empty /\ thisPkg = NoPkg
    /\ vendorPrefix = Empty /\ attempts = <<>> /\ pkg = Empty
    /\ iface = <<>> /\ decl = NoDecl /\ methods = <<>>
    /\ code = NoCode /\ written = <<>> /\ exitCode = -1

Next ==
    \/ ParseFlag
    \/ NewThisPackage
    \/ ImportPackageCwd
    \/ ImportPackageTry
    \/ ParseTypeInfo
    \/ FindInterface
    \/ ParseMethod
    \/ GenCode
    \/ WriteCode

Spec == Init /\ [][Next]_vars

\* the order of the stages in main
Stage(p) ==
    CASE p = "parseFlag" -> 1 [] p = "newThisPackage" -> 2 [] p = "importPackage" -> 3
      [] p = "parseTypeInfo" -> 4 [] p = "findInterface" -> 5 [] p = "parseMethod" -> 6
      [] p = "genCode" -> 7 [] p = "writeCode" -> 8 [] OTHER -> 9

\* every stage before the write has succeeded
AllStagesSucceeded ==
    /\ parseFlagResult(flags.i).st = "ok"
    /\ env.cwd.ok /\ thisPkg = newThisPackage(env.cwd, flags.t)
    /\ (srcPath # Empty => pkg \in env.pkgs)
    /\ env.defs.ok
    /\ decl \in env.defs.entries /\ iface = decl.methods
    /\ Len(methods) = Len(iface)
    /\ env.tplOk /\ env.fmtOk /\ code.ok

C7_State ==
    /\ Len(written) <= 1
    /\ written # <<>> => (AllStagesSucceeded /\ written[1].data = code /\ Stage(pc) = 9)
    /\ (pc = "exit" /\ ~AllStagesSucceeded) => (exitCode \in {1, 2} /\ written = <<>>)
    /\ pc = "exit" => exitCode # 0
    /\ exitCode = 0 => (pc = "done" /\ Len(written) = 1)

\* C7: in every run the output destination is written at most once and only
\* after every earlier stage has succeeded; a run in which one of them fails
\* ends with a non-zero exit status and nothing written; and no step goes
\* back to an earlier stage.
C7_SingleWrite ==
    /\ []C7_State
    /\ [][Stage(pc') >= Stage(pc) /\ (Stage(pc) = 9 => UNCHANGED vars)]_vars

C7_Witness ==
    /\ pc = "done" /\ exitCode = 0 /\ Len(written) = 1
    /\ written[1].dest = OutFile /\ written[1].data.tpl = "mock"
    /\ Len(written[1].data.Methods) = 2 /\ Len(attempts) = 2

---------------------------------------------------------------------------
(* The mock that mockTpl generates, src/ifacegen.go:275-309, at run time.   *)
(* Values are naturals: 0 is the zero value of every type.                  *)

\* lines 279-282: const call<Method> = <index of the method in Methods>
callSlot(ms, name) == (CHOOSE k \in 1..Len(ms) : ms[k].Method = name) - 1

\* line 290: callCounts [len Methods]int32, zeroed
newCallCounts(ms) == [k \in 0..(Len(ms) - 1) |-> 0]

\* line 294: atomic.AddInt32(&a[slot], delta) for delta >= 0; an int32 past
\* 2147483647 continues at -2147483648
AtomicAddInt32(a, slot, delta) ==
    [a EXCEPT ![slot] = IF a[slot] > 2147483647 - delta
                        THEN (a[slot] - 2147483647 - 1) + (delta - 2147483647 - 1)
                        ELSE a[slot] + delta]
\* line 305: int(atomic.LoadInt32(&a[slot]))
AtomicLoadInt32(a, slot) == a[slot]

\* the identifiers a generated method declares: receiver, parameters, results
paramNames(m) == [k \in 1..Len(ListOf(m.Params)) |-> DeclName(ListOf(m.Params)[k])]
resultNames(m) == [k \in 1..Len(ListOf(m.Results)) |-> DeclName(ListOf(m.Results)[k])]
\* line 293 is accepted by the compiler: no identifier is declared twice, and
\* none that lines 299 and 301 read is blank
Compiles(m) ==
    LET ns == <<<<"m">>>> \o paramNames(m) \o resultNames(m) IN
    /\ \A i, j \in 1..Len(ns) : i # j => ns[i] # ns[j]
    /\ \A i \in 1..Len(ns) : ns[i] # <<"_">>

\* the value of identifier n where names are bound to vals
Lookup(names, vals, n) == vals[CHOOSE k \in 1..Len(names) : names[k] = n]

\* line 301: the values of {{.Args}} with the parameters bound to actuals
forwardedArgs(m, actuals) ==
    LET as == ListOf(m.Args) IN
    [k \in 1..Len(as) |-> Lookup(paramNames(m), actuals, as[k])]

\* line 299: the values of {{.ResultVars}}, the named results being zeroed
\* on entry and not assigned before
returnedResultVars(m) ==
    LET rv == ListOf(m.ResultVars)
        zeroed == [k \in 1..Len(resultNames(m)) |-> 0] IN
    [k \in 1..Len(rv) |-> Lookup(resultNames(m), zeroed, rv[k])]

\* the arguments a caller passes to method fn, and what a test's override
\* function answers
Actuals(fn) == [k \in 1..Len(fn.params) |-> k]
OverrideAnswer(fn, recv) == [k \in 1..Len(fn.results) |-> 10 + k + Len(recv)]

\* line 293: func (m {{$x.Receiver}}) declares a pointer receiver when Receiver
\* starts with "*"; otherwise m is a copy of the instance, made at the call
IsPointerReceiver(r) == Len(r) >= 1 /\ r[1] = "*"

Goroutines == 1..NumGoroutines
\* self is m.callCounts of the call in progress when m is a copy
Idle == [pc |-> "idle", m |-> 0, recv |-> <<>>, ret |-> <<>>, out |-> "none",
         val |-> 0, quiet |-> FALSE, made |-> 0, self |-> newCallCounts(mockObj.methods)]
Slots == 0..(Len(mockObj.methods) - 1)
InCall(t) == thr[t].pc \in {"l294", "l295"}
MethodAt(slot) == mockObj.methods[slot + 1]
\* the calls made so far, over all methods
RECURSIVE SumCalls(_, _)
SumCalls(h, k) == IF k < 0 THEN 0 ELSE h[k].calls + SumCalls(h, k - 1)
CallsLeft == SumCalls(hist, Len(mockObj.methods) - 1) < MaxCalls

\* line 293: a goroutine calls method k of the instance; a value receiver
\* gets its own copy of the instance's fields
MockEnter(t) ==
    /\ ~InCall(t)
    /\ CallsLeft
    /\ \E k \in Slots :
          /\ thr' = [thr EXCEPT ![t] =
                       [Idle EXCEPT !.pc = "l294", !.m = k,
                                    !.self = IF IsPointerReceiver(mockObj.Receiver)
                                             THEN @ ELSE callCounts]]
          /\ hist' = [hist EXCEPT ![k].calls = @ + 1]
    /\ UNCHANGED <<genVars, mockObj, callCounts>>

\* line 294: the add goes to the instance through a pointer receiver, and to
\* the call's own copy through a value receiver
MockCount(t) ==
    /\ thr[t].pc = "l294"
    /\ LET slot == callSlot(mockObj.methods, MethodAt(thr[t].m).Method) IN
       IF IsPointerReceiver(mockObj.Receiver)
       THEN /\ callCounts' = AtomicAddInt32(callCounts, slot, 1)
            /\ thr' = [thr EXCEPT ![t].pc = "l295"]
       ELSE /\ callCounts' = callCounts
            /\ thr' = [thr EXCEPT ![t].pc = "l295",
                                  ![t].self = AtomicAddInt32(@, slot, 1)]
    /\ UNCHANGED <<genVars, mockObj, hist>>

\* lines 295-300: the override field is nil
MockNotMocked(t) ==
    /\ thr[t].pc = "l295"
    /\ thr[t].m \notin mockObj.fields
    /\ IF mockObj.PanicIfNotMocked
       THEN thr' = [thr EXCEPT ![t].pc = "returned", ![t].out = "panic",
                               ![t].self = Idle.self]
       ELSE thr' = [thr EXCEPT ![t].pc = "returned", ![t].out = "zero",
                               ![t].ret = returnedResultVars(MethodAt(thr[t].m)),
                               ![t].self = Idle.self]
    /\ UNCHANGED <<genVars, mockObj, callCounts, hist>>

\* line 301: the override field is set
MockForward(t) ==
    /\ thr[t].pc = "l295"
    /\ thr[t].m \in mockObj.fields
    /\ LET fn == mockObj.iface[thr[t].m + 1]
           recv == forwardedArgs(MethodAt(thr[t].m), Actuals(fn)) IN
       /\ thr' = [thr EXCEPT ![t].pc = "returned", ![t].out = "forwarded",
                             ![t].recv = recv, ![t].ret = OverrideAnswer(fn, recv),
                             ![t].self = Idle.self]
       /\ hist' = [hist EXCEPT ![thr[t].m].fwd = @ + 1]
    /\ UNCHANGED <<genVars, mockObj, callCounts>>

\* lines 304-306: <Method>CallCount(), which a goroutine can call whenever it
\* is not inside a method of the instance, any number of times in a row; the
\* copy a value receiver reads holds what the instance holds at the call
MockCallCount(t) ==
    /\ ~InCall(t)
    /\ \E k \in Slots :
          thr' = [thr EXCEPT ![t] =
                    [Idle EXCEPT !.pc = "read", !.m = k,
                                 !.val = AtomicLoadInt32(callCounts,
                                            callSlot(mockObj.methods, MethodAt(k).Method)),
                                 !.quiet = \A u \in Goroutines : ~InCall(u),
                                 !.made = hist[k].calls]]
    /\ UNCHANGED <<genVars, mockObj, callCounts, hist>>

\* Interfaces a mock is generated for, each with its methods in the order of
\* iface.Method(i) (line 188), which go/types keeps sorted by method name
FnNamed == [name |-> <<"N">>,
            params |-> <<[name |-> <<"p">>, type |-> TInt], [name |-> <<"q">>, type |-> TInt]>>,
            results |-> <<[name |-> <<"n">>, type |-> TInt], [name |-> ErrName, type |-> TError]>>]
FnAnon  == [name |-> <<"H">>,
            params |-> <<[name |-> Empty, type |-> TError], [name |-> Empty, type |-> TInt],
                         [name |-> Empty, type |-> TInt]>>,
            results |-> <<[name |-> Empty, type |-> TInt]>>]
FnClash == [name |-> <<"E">>, params |-> <<[name |-> Empty, type |-> TError]>>,
            results |-> <<[name |-> Empty, type |-> TError]>>]
MockIfaces == {<<FnAnon>>, <<FnG, FnAnon>>, <<FnF, FnNamed>>, <<FnClash>>}
\* lines 103-106: the receiver a mock is generated with, the default
\* "*<Interface>Mock" or the -r flag as given
MockReceivers == {Star \o NameI \o <<"M", "o", "c", "k">>, <<"*", "T">>, <<"T">>}

InitMock ==
    /\ GenIdle
    /\ \E fns \in MockIfaces, fields \in SUBSET (0..1), panics \in BOOLEAN,
          rcv \in MockReceivers :
          LET ms == [k \in 1..Len(fns) |-> parseMethod(PkgXP, fns[k])] IN
          /\ \A k \in 1..Len(ms) : Compiles(ms[k])
          /\ fields \subseteq 0..(Len(fns) - 1)
          /\ mockObj = [iface |-> fns, methods |-> ms, fields |-> fields,
                        PanicIfNotMocked |-> panics, Receiver |-> rcv]
    /\ callCounts = newCallCounts(mockObj.methods)
    /\ thr = [t \in Goroutines |-> Idle]
    /\ hist = [k \in Slots |-> [calls |-> 0, fwd |-> 0]]

NextMock ==
    \E t \in Goroutines :
        \/ MockEnter(t)
        \/ MockCount(t)
        \/ MockNotMocked(t)
        \/ MockForward(t)
        \/ MockCallCount(t)

SpecMock == InitMock /\ [][NextMock]_vars

\* goroutines inside a call of method k that have not passed line 294
NotYetCounted(k) == Cardinality({t \in Goroutines : thr[t].pc = "l294" /\ thr[t].m = k})
\* goroutines inside a call of method k that have not passed line 301
NotYetForwarded(k) == Cardinality({t \in Goroutines : InCall(t) /\ thr[t].m = k})

\* C3: whatever the interleaving, once all calls have completed the counter
\* slot of method M holds exactly the number of calls made to M and the
\* accessor of M returns that number, so that no increment is lost and no
\* call of another method changes M's count; the slots are distinct
\* zero-based indices into an array of as many counters as there are methods.
C3_CallCounts ==
    /\ DOMAIN callCounts = 0..(Len(mockObj.methods) - 1)
    /\ \A j, k \in Slots :
          /\ callSlot(mockObj.methods, MethodAt(k).Method) \in DOMAIN callCounts
          /\ j # k => callSlot(mockObj.methods, MethodAt(j).Method)
                        # callSlot(mockObj.methods, MethodAt(k).Method)
    /\ (\A t \in Goroutines : ~InCall(t)) =>
          \A k \in Slots :
             AtomicLoadInt32(callCounts, callSlot(mockObj.methods, MethodAt(k).Method))
                 = hist[k].calls
    /\ \A t \in Goroutines :
          (thr[t].pc = "read" /\ thr[t].quiet) => thr[t].val = thr[t].made

\* C4: a call that has got past its first statement is counted, whatever its
\* outcome; with the override unset the call returns the zero value of every
\* declared result when PanicIfNotMocked is false and aborts when it is true;
\* with the override set the override is invoked exactly once, with the
\* call's arguments in their original order, and its results are returned.
C4_MockCall ==
    /\ \A k \in Slots :
          /\ callCounts[k] = hist[k].calls - NotYetCounted(k)
          /\ hist[k].fwd = IF k \in mockObj.fields
                           THEN hist[k].calls - NotYetForwarded(k) ELSE 0
    /\ \A t \in Goroutines :
          thr[t].pc = "returned" =>
             LET fn == mockObj.iface[thr[t].m + 1] IN
             IF thr[t].m \notin mockObj.fields
             THEN IF mockObj.PanicIfNotMocked
                  THEN thr[t].out = "panic"
                  ELSE /\ thr[t].out = "zero"
                       /\ thr[t].ret = [j \in 1..Len(fn.results) |-> 0]
             ELSE /\ thr[t].out = "forwarded"
                  /\ thr[t].recv = Actuals(fn)
                  /\ thr[t].ret = OverrideAnswer(fn, Actuals(fn))

====
